---- MODULE Spec2Model ----
(***************************************************************************)
(* Wallet ledger engine of the Telegram crypto exchange simulation:        *)
(* deposit_usd, simulate_and_execute_buy_sell and simulate_and_execute_swap*)
(* of exchange/services.py over the Wallet and Transaction tables of       *)
(* wallet/models.py, called by several request handlers at once.           *)
(*                                                                         *)
(* A Decimal is modelled as an integer number of 10^-Prec units; every     *)
(* arithmetic result is rounded half-even to Prec significant digits, as   *)
(* Python's decimal context does (there with 28 digits).                    *)
(***************************************************************************)
EXTENDS Integers, Sequences, FiniteSets, TLC

VARIABLES users, wallet, ledger, call, result, ncalls, args, wallets, store, lock

vars == <<users, wallet, ledger, call, result, ncalls, args, wallets, store, lock>>

(***************************************************************************)
(* Bounds of the model.                                                    *)
(***************************************************************************)
\* significant digits of the decimal context
Prec == 2
\* calls issued in one behaviour, after those that built the initial database
MaxCalls == 2

(***************************************************************************)
(* Decimal arithmetic (decimal.Decimal under the default context).          *)
(***************************************************************************)
RECURSIVE Pow10(_)
Pow10(k) == IF k <= 0 THEN 1 ELSE 10 * Pow10(k - 1)

\* grid units per 1
Q == Pow10(Prec)

\* the Decimal of a whole number
D(n) == n * Q

Abs(n) == IF n < 0 THEN -n ELSE n

Sign(n) == IF n < 0 THEN -1 ELSE 1

RECURSIVE Digits(_)
Digits(n) == IF n <= 0 THEN 0 ELSE 1 + Digits(n \div 10)

\* n/d rounded to the nearest integer, ties to even (ROUND_HALF_EVEN); n >= 0, d > 0
RoundHalfEven(n, d) ==
    LET q == n \div d
        r == n % d
    IN  IF 2 * r > d \/ (2 * r = d /\ q % 2 = 1) THEN q + 1 ELSE q

\* the rational num/den (in grid units, den > 0) rounded to Prec significant digits
RoundSig(num, den) ==
    LET a == Abs(num)
        s == Pow10(Digits(a \div den) - Prec)
    IN  Sign(num) * s * RoundHalfEven(a, den * s)

DAdd(x, y) == RoundSig(x + y, 1)

DSub(x, y) == RoundSig(x - y, 1)

DMul(x, y) == RoundSig(x * y, Q)

\* y # 0
DDiv(x, y) == RoundSig(Sign(y) * x * Q, Abs(y))

(***************************************************************************)
(* The tables: User, Coin, Wallet, Transaction.                             *)
(***************************************************************************)
\* rows of the User table
Users == {"u1", "u2"}

\* rows of the Coin table, and those with is_active = True
Coins == {"bitcoin", "ethereum", "dogecoin"}

ActiveCoins == {"bitcoin", "ethereum"}

Procs == {"p1", "p2"}

\* a JSON balance map: currency id -> Decimal, a missing key reading as 0
EmptyBalance == [c \in {} |-> 0]

Get(b, c) == IF c \in DOMAIN b THEN b[c] ELSE 0

Put(b, c, v) == [x \in (DOMAIN b) \cup {c} |-> IF x = c THEN v ELSE b[x]]

NoWallet == [exists |-> FALSE, balance |-> EmptyBalance]

\* the stored balance of a user's currency, 0 without a wallet or a key
Bal(u, c) == IF u \in Users THEN Get(wallet[u].balance, c) ELSE 0

\* a lookup that hands out a fresh empty wallet every time
GetOrCreateFresh(w) == [exists |-> TRUE, balance |-> EmptyBalance]

\* Wallet.objects.get_or_create(user=user, defaults={'balance': {}})
GetOrCreate(w) == IF w.exists THEN w ELSE [exists |-> TRUE, balance |-> EmptyBalance]

\* a Wallet table without the unique constraint on user
NoUniqueConstraint(n) == FALSE

\* Wallet.user is a OneToOneField: an INSERT for a user who has n rows violates
\* the unique constraint when n >= 1
UniqueViolation(n) == n >= 1

\* the rows of a user after an INSERT
Insert(n) == IF UniqueViolation(n) THEN n ELSE n + 1

\* get_user_wallet for an existing user, as one step (wallet/utils.py 126-129)
WalletLookup(u) ==
    /\ wallet' = [wallet EXCEPT ![u] = GetOrCreate(wallet[u])]
    /\ wallets' = [wallets EXCEPT ![u] = IF wallet[u].exists THEN @ ELSE Insert(@)]

(***************************************************************************)
(* Arguments the callers pass.                                              *)
(***************************************************************************)
\* user_id: "" is a missing argument, "u9" names no User
UserIdInputs == {"", "u1", "u2", "u9"}

\* the user ids a row may carry
UserIds == UserIdInputs \ {""}

\* currency ids as typed by the caller
CurrencyInputs == {"", "usd", "bitcoin", "ethereum", "BITCOIN", "dogecoin"}

SideInputs == {"", "buy", "sell", "BUY", "hold"}

\* str.lower() on the ids and sides above
Lower(s) == IF s = "BITCOIN" THEN "bitcoin" ELSE IF s = "BUY" THEN "buy" ELSE s

\* an amount argument: None, a str, or a number
NumberInputs == {-1, 0, 1, 2}

AmountInputs ==
    {[kind |-> "none", val |-> 0], [kind |-> "str", val |-> 0]}
        \cup {[kind |-> "num", val |-> D(n)] : n \in NumberInputs}

\* bool(amount): None and 0 are falsy, a non-empty str is truthy
Truthy(a) == a.kind = "str" \/ (a.kind = "num" /\ a.val # 0)

\* isinstance(amount, (Decimal, float, int))
IsNumber(a) == a.kind = "num"

\* what get_coin_price returns: None, or a Decimal
PriceInputs == {-1, 0, 1, 3}

Quotes ==
    {[avail |-> FALSE, usd |-> 0]} \cup {[avail |-> TRUE, usd |-> D(n)] : n \in PriceInputs}

\* bool(price): None and Decimal('0') are falsy
PriceTruthy(q) == q.avail /\ q.usd # 0

(***************************************************************************)
(* Transaction rows and TransactionResult.                                  *)
(***************************************************************************)
\* a save that stores the row as the caller built it
SaveAsGiven(tx) == tx

\* Transaction.save: destination_amount is recomputed when base_amount and rate are truthy
Save(tx) ==
    IF tx.base_amount # 0 /\ tx.rate # 0
    THEN [tx EXCEPT !.destination_amount = DMul(tx.base_amount, tx.rate)]
    ELSE tx

NoReq == [user |-> "", cur |-> "", dst |-> "", amount |-> 0, side |-> "",
          price |-> 0, dprice |-> 0]

Idle == [pc |-> "idle", op |-> "", req |-> NoReq, seen |-> EmptyBalance]

\* TransactionResult (transaction_record: 0 for None, else the row's place in the
\* ledger), with the call it answers (op, req) and the balance map the call read (seen)
\* the amounts a message quotes: the currency it names, the amounts it gives as
\* required and as available (an empty set: the message gives none)
NoMessage == [currency |-> "", need |-> {}, have |-> {}]

Outcome(op, success, status, record, balances, req, seen) ==
    [op |-> op, success |-> success, status |-> status, transaction_record |-> record,
     final_balances |-> balances, req |-> req, seen |-> seen, message |-> NoMessage]

\* a TransactionResult with the given message
WithMessage(r, m) == [r EXCEPT !.message = m]

\* a failure that hands back the oldest Transaction
FailureWithRecord(op, status, req, seen) ==
    Outcome(op, FALSE, status, 1, EmptyBalance, req, seen)

Failure(op, status, req, seen) ==
    Outcome(op, FALSE, status, 0, EmptyBalance, req, seen)

\* the argument list a caller holds, as passed (none: the caller passes any)
NoArgs == [op |-> "", arg |-> <<>>]

NoResult == Failure("", "", NoReq, EmptyBalance)

SameBalance(a, b) == \A c \in (DOMAIN a) \cup (DOMAIN b) : Get(a, c) = Get(b, c)

\* an INSERT that takes the place of the newest row
CreateInPlace(l, row) == IF l = <<>> THEN <<row>> ELSE [l EXCEPT ![Len(l)] = row]

\* an INSERT that is not visible when the block commits
CreateLater(l, row) == l

\* Transaction.objects.create(...): an INSERT into the Transaction table
Create(l, row) == Append(l, row)

\* a call returns
Return(p, r) ==
    /\ result' = [result EXCEPT ![p] = r]
    /\ call' = [call EXCEPT ![p] = Idle]
    /\ UNCHANGED <<args, wallets, store, lock>>

\* transaction.atomic() (services.py 117, 271): what the database holds after the
\* block, given what it held before and what the block wrote; persisted is FALSE
\* when wallet.save() or Transaction.objects.create raised inside the block
Atomic(persisted, before, written) == IF persisted THEN written ELSE before

\* a call goes on to its write step with the balance map it read
Proceed(p, op, req, seen) ==
    /\ call' = [call EXCEPT ![p] = [pc |-> op, op |-> op, req |-> req, seen |-> seen]]
    /\ UNCHANGED <<result, args, store, lock>>

(***************************************************************************)
(* deposit_usd                                                              *)
(***************************************************************************)
\* services.py 370-394: the status of the first failing check, "ok" if none fails
\* a validation that lets an amount of zero through
DepositValidateZero(user_id, amount) ==
    IF ~(user_id # "" /\ amount.kind # "none") THEN "invalid_input"
    ELSE IF ~IsNumber(amount) THEN "invalid_input"
    ELSE IF amount.val < 0 THEN "invalid_input"
    ELSE "ok"

DepositValidate(user_id, amount) ==
    IF ~(user_id # "" /\ Truthy(amount)) THEN "invalid_input"
    ELSE IF ~IsNumber(amount) THEN "invalid_input"
    ELSE IF amount.val <= 0 THEN "invalid_input"
    ELSE "ok"

\* services.py 398-399: current_balance['usd'] = Decimal(current_balance.get('usd', 0))
DepositSnapshot(b) == Put(b, "usd", Get(b, "usd"))

\* services.py 412: current_balance['usd'] + amount
DepositNewUsd(usd, amount) == DAdd(usd, amount)

\* services.py 416-424: wallet.save() raised
DepositFailed(req, seen) ==
    Outcome("deposit", FALSE, "failed_deposit", 0, EmptyBalance, req, seen)

\* a deposit that saves the balance and answers with the result of lines 416-424
DepositUnreported(req, seen, usd) ==
    Outcome("deposit", FALSE, "failed_deposit", 0, EmptyBalance, req, seen)

\* services.py 426-434
DepositSuccess(req, seen, usd) ==
    Outcome("deposit", TRUE, "deposit_successful", 0, Put(EmptyBalance, "USD", usd),
            req, seen)

\* the argument lists a caller may pass, the statuses validation rejects them with,
\* and the calls that pass validation
DepositInputs == [user_id : UserIdInputs, amount : AmountInputs]

DepositStatus(a) == DepositValidate(a.user_id, a.amount)

DepositRejections == {DepositStatus(a) : a \in DepositInputs} \ {"ok"}

\* services.py 386: the arguments as normalised by the validation
DepositRequest(a) == [NoReq EXCEPT !.user = a.user_id, !.amount = a.amount.val]

DepositRequests == {DepositRequest(a) : a \in {x \in DepositInputs : DepositStatus(x) = "ok"}}

\* services.py 370-409: the outcome of the validation (status v), then the lookup
\* of the user and the wallet for the validated request
DepositBegin(p, v, req) ==
    IF v # "ok"
    THEN /\ Return(p, Failure("deposit", v, NoReq, EmptyBalance))
         /\ UNCHANGED wallet
    ELSE IF req.user \notin users
    THEN \* get_user_wallet raises Http404, caught at line 402
         /\ Return(p, Failure("deposit", "not_found", req, EmptyBalance))
         /\ UNCHANGED wallet
    ELSE /\ WalletLookup(req.user)
         /\ Proceed(p, "deposit", req, DepositSnapshot(wallet[req.user].balance))

\* validation and wallet lookup (services.py 370-409)
DepositRead(p) ==
    /\ call[p].pc = "idle"
    /\ ncalls < MaxCalls
    /\ ncalls' = ncalls + 1
    /\ UNCHANGED <<users, ledger>>
    /\ \/ \E v \in DepositRejections : DepositBegin(p, v, NoReq)
       \/ \E req \in DepositRequests : DepositBegin(p, "ok", req)

\* the balance write (services.py 411-434)
DepositWrite(p) ==
    /\ call[p].pc = "deposit"
    /\ LET req == call[p].req
           seen == call[p].seen
           usd == DepositNewUsd(Get(seen, "usd"), req.amount)
       IN  \/ /\ wallet' = [wallet EXCEPT ![req.user].balance = Put(seen, "usd", usd)]
              /\ Return(p, DepositSuccess(req, seen, usd))
           \/ \* wallet.save() raises: nothing is stored
              /\ UNCHANGED wallet
              /\ Return(p, DepositFailed(req, seen))
    /\ UNCHANGED <<users, ledger, ncalls>>

(***************************************************************************)
(* simulate_and_execute_buy_sell                                            *)
(***************************************************************************)
\* a validation that goes on to the wallet without looking at the price
TradeValidateNoPrice(user_id, cryptocurrency_id, amount, transaction_type, quote) ==
    IF ~(user_id # "" /\ cryptocurrency_id # "" /\ Truthy(amount) /\ transaction_type # "")
    THEN "invalid_input"
    ELSE IF ~IsNumber(amount) THEN "invalid_input"
    ELSE IF amount.val <= 0 THEN "invalid_input"
    ELSE IF Lower(transaction_type) \notin {"buy", "sell"} THEN "invalid_input"
    ELSE IF Lower(cryptocurrency_id) \notin Coins THEN "unsupported_currency"
    ELSE "ok"

\* services.py 202-259: the status of the first failing check, "ok" if none fails,
\* when the Coin table holds the rows coins
TradeValidateIn(coins, user_id, cryptocurrency_id, amount, transaction_type, quote) ==
    IF ~(user_id # "" /\ cryptocurrency_id # "" /\ Truthy(amount) /\ transaction_type # "")
    THEN "invalid_input"
    ELSE IF ~IsNumber(amount) THEN "invalid_input"
    ELSE IF amount.val <= 0 THEN "invalid_input"
    ELSE IF Lower(transaction_type) \notin {"buy", "sell"} THEN "invalid_input"
    ELSE IF Lower(cryptocurrency_id) \notin coins THEN "unsupported_currency"
    ELSE IF ~PriceTruthy(quote) THEN "price_unavailable"
    ELSE "ok"

\* the same with the Coin table of the databases above
TradeValidate(user_id, cryptocurrency_id, amount, transaction_type, quote) ==
    TradeValidateIn(Coins, user_id, cryptocurrency_id, amount, transaction_type, quote)

\* services.py 260: usd_value = amount * Decimal(price)
UsdValue(amount, price) == DMul(amount, price)

\* a funds check that adds the usd of every wallet to the balance read
BuyShortPooled(current_usd_balance, usd_value) ==
    current_usd_balance + Bal("u1", "usd") + Bal("u2", "usd") < usd_value

\* services.py 273 and 302: the funds checks
BuyShort(current_usd_balance, usd_value) == current_usd_balance < usd_value

SellShort(current_crypto_balance, amount) == current_crypto_balance < amount

\* services.py 278: f" Need: {usd_value:.8f}(USD) to buy ..., Have: {current_usd_balance}(USD)"
BuyShortMessage(usd_value, current_usd_balance) ==
    [currency |-> "usd", need |-> {usd_value}, have |-> {current_usd_balance}]

\* services.py 307: f"Insufficient {cryptocurrency_id} balance. Need: {amount}..., Have: {current_crypto_balance}"
SellShortMessage(cryptocurrency_id, amount, current_crypto_balance) ==
    [currency |-> cryptocurrency_id, need |-> {amount}, have |-> {current_crypto_balance}]

\* services.py 285-286 and 314-315
BuyNewUsd(current_usd_balance, usd_value) == DSub(current_usd_balance, usd_value)

BuyNewCrypto(current_crypto_balance, amount) == DAdd(current_crypto_balance, amount)

SellNewUsd(current_usd_balance, usd_value) == DAdd(current_usd_balance, usd_value)

SellNewCrypto(current_crypto_balance, amount) == DSub(current_crypto_balance, amount)

\* a buy stored with the default status of the model
BuyRecordPending(req, usd_value) ==
    Save([user |-> req.user, wallet |-> req.user,
          base_currency |-> "usd", base_amount |-> usd_value,
          destination_currency |-> req.cur, destination_amount |-> req.amount,
          rate |-> req.price,
          swap_origin_usd_rate |-> {}, swap_destination_usd_rate |-> {},
          transaction_type |-> "buy", status |-> "pending"])

\* services.py 289-300: Transaction.objects.create(...) of a buy
BuyRecord(req, usd_value) ==
    Save([user |-> req.user, wallet |-> req.user,
          base_currency |-> "usd", base_amount |-> usd_value,
          destination_currency |-> req.cur, destination_amount |-> req.amount,
          rate |-> req.price,
          swap_origin_usd_rate |-> {}, swap_destination_usd_rate |-> {},
          transaction_type |-> "buy", status |-> "completed"])

\* services.py 318-329: Transaction.objects.create(...) of a sell
SellRecord(req, usd_value) ==
    Save([user |-> req.user, wallet |-> req.user,
          base_currency |-> req.cur, base_amount |-> req.amount,
          destination_currency |-> "usd", destination_amount |-> usd_value,
          rate |-> req.price,
          swap_origin_usd_rate |-> {}, swap_destination_usd_rate |-> {},
          transaction_type |-> "sell", status |-> "completed"])

\* services.py 340-341: the two entries written into the map the call read
TradeNewBalance(seen, cur, new_usd_balance, new_crypto_balance) ==
    Put(Put(seen, "usd", new_usd_balance), cur, new_crypto_balance)

\* services.py 279-282, 308-311, 351-354: {'usd': ..., cryptocurrency_id: ...}
TradeBalances(cur, usd, crypto) == Put(Put(EmptyBalance, "usd", usd), cur, crypto)

TradeInputs ==
    [user_id : UserIdInputs, cryptocurrency_id : CurrencyInputs, amount : AmountInputs,
     transaction_type : SideInputs, quote : Quotes]

TradeStatus(a) ==
    TradeValidate(a.user_id, a.cryptocurrency_id, a.amount, a.transaction_type, a.quote)

TradeRejections == {TradeStatus(a) : a \in TradeInputs} \ {"ok"}

\* services.py 218, 227, 236: the arguments as normalised by the validation
TradeRequest(a) ==
    [NoReq EXCEPT !.user = a.user_id, !.cur = Lower(a.cryptocurrency_id),
                  !.amount = a.amount.val, !.side = Lower(a.transaction_type),
                  !.price = a.quote.usd]

TradeRequests == {TradeRequest(a) : a \in {x \in TradeInputs : TradeStatus(x) = "ok"}}

\* services.py 202-268: the outcome of the validation (status v), then the lookup
\* of the user and the wallet for the validated request
TradeBegin(p, v, req) ==
    IF v # "ok"
    THEN /\ Return(p, Failure("trade", v, NoReq, EmptyBalance))
         /\ UNCHANGED wallet
    ELSE IF req.user \notin users
    THEN \* get_object_or_404 raises Http404, caught at line 356
         /\ Return(p, Failure("trade", "error", req, EmptyBalance))
         /\ UNCHANGED wallet
    ELSE /\ WalletLookup(req.user)
         /\ Proceed(p, "trade", req, wallet[req.user].balance)

\* validation, price and wallet lookup (services.py 200-268)
TradeRead(p) ==
    /\ call[p].pc = "idle"
    /\ ncalls < MaxCalls
    /\ ncalls' = ncalls + 1
    /\ UNCHANGED <<users, ledger>>
    /\ \/ \E v \in TradeRejections : TradeBegin(p, v, NoReq)
       \/ \E req \in TradeRequests : TradeBegin(p, "ok", req)

\* the atomic block (services.py 271-355)
TradeExecute(p) ==
    /\ call[p].pc = "trade"
    /\ UNCHANGED <<users, ncalls>>
    /\ LET req == call[p].req
           seen == call[p].seen
           usd_value == UsdValue(req.amount, req.price)
           current_usd_balance == Get(seen, "usd")
           current_crypto_balance == Get(seen, req.cur)
           short == IF req.side = "buy" THEN BuyShort(current_usd_balance, usd_value)
                    ELSE SellShort(current_crypto_balance, req.amount)
           new_usd_balance ==
               IF req.side = "buy" THEN BuyNewUsd(current_usd_balance, usd_value)
               ELSE SellNewUsd(current_usd_balance, usd_value)
           new_crypto_balance ==
               IF req.side = "buy" THEN BuyNewCrypto(current_crypto_balance, req.amount)
               ELSE SellNewCrypto(current_crypto_balance, req.amount)
           record == IF req.side = "buy" THEN BuyRecord(req, usd_value)
                     ELSE SellRecord(req, usd_value)
           message == IF req.side = "buy"
                      THEN BuyShortMessage(usd_value, current_usd_balance)
                      ELSE SellShortMessage(req.cur, req.amount, current_crypto_balance)
       IN  IF short
           THEN /\ Return(p, WithMessage(Outcome("trade", FALSE, "insufficient_funds", 0,
                        TradeBalances(req.cur, current_usd_balance, current_crypto_balance),
                        req, seen), message))
                /\ UNCHANGED <<wallet, ledger>>
           ELSE \E persisted \in BOOLEAN :
                /\ ledger' = Atomic(persisted, ledger, Create(ledger, record))
                /\ wallet' = Atomic(persisted, wallet, [wallet EXCEPT ![req.user].balance =
                        TradeNewBalance(seen, req.cur, new_usd_balance, new_crypto_balance)])
                /\ Return(p, IF persisted
                             THEN Outcome("trade", TRUE, "completed", Len(ledger) + 1,
                                      TradeBalances(req.cur, new_usd_balance,
                                                    new_crypto_balance), req, seen)
                             ELSE \* the exception is caught at line 356
                                  Failure("trade", "error", req, seen))

(***************************************************************************)
(* simulate_and_execute_swap                                                *)
(***************************************************************************)
\* services.py 45-109: the status of the first failing check, "ok" if none fails
\* a validation that compares the two currencies only after the catalog and the prices
SwapValidatePairLast(user_id, origin_currency_id, destination_currency_id, origin_amount, origin_quote, destination_quote) ==
    IF ~(user_id # "" /\ origin_currency_id # "" /\ destination_currency_id # ""
            /\ Truthy(origin_amount))
    THEN "invalid_input"
    ELSE IF ~IsNumber(origin_amount) THEN "invalid_input"
    ELSE IF origin_amount.val <= 0 THEN "invalid_input"
    ELSE IF origin_currency_id \notin ActiveCoins THEN "unsupported_currency"
    ELSE IF destination_currency_id \notin ActiveCoins THEN "unsupported_currency"
    ELSE IF ~(PriceTruthy(origin_quote) /\ PriceTruthy(destination_quote))
    THEN "price_unavailable"
    ELSE IF origin_currency_id = destination_currency_id THEN "invalid_pair"
    ELSE "ok"

\* a validation that never consults the currency catalog
SwapValidateNoCatalog(user_id, origin_currency_id, destination_currency_id, origin_amount, origin_quote, destination_quote) ==
    IF ~(user_id # "" /\ origin_currency_id # "" /\ destination_currency_id # ""
            /\ Truthy(origin_amount))
    THEN "invalid_input"
    ELSE IF ~IsNumber(origin_amount) THEN "invalid_input"
    ELSE IF origin_amount.val <= 0 THEN "invalid_input"
    ELSE IF origin_currency_id = destination_currency_id THEN "invalid_pair"
    ELSE IF ~(PriceTruthy(origin_quote) /\ PriceTruthy(destination_quote))
    THEN "price_unavailable"
    ELSE "ok"

SwapValidate(user_id, origin_currency_id, destination_currency_id, origin_amount, origin_quote, destination_quote) ==
    IF ~(user_id # "" /\ origin_currency_id # "" /\ destination_currency_id # ""
            /\ Truthy(origin_amount))
    THEN "invalid_input"
    ELSE IF ~IsNumber(origin_amount) THEN "invalid_input"
    ELSE IF origin_amount.val <= 0 THEN "invalid_input"
    ELSE IF origin_currency_id = destination_currency_id THEN "invalid_pair"
    ELSE IF origin_currency_id \notin ActiveCoins THEN "unsupported_currency"
    ELSE IF destination_currency_id \notin ActiveCoins THEN "unsupported_currency"
    ELSE IF ~(PriceTruthy(origin_quote) /\ PriceTruthy(destination_quote))
    THEN "price_unavailable"
    ELSE "ok"

\* services.py 112-113
SwapDestinationAmount(origin_amount, origin_usd_price, destination_usd_price) ==
    DDiv(DMul(origin_amount, origin_usd_price), destination_usd_price)

\* services.py 114
SwapRate(destination_amount, origin_amount) == DDiv(destination_amount, origin_amount)

\* services.py 126
SwapShort(current_origin_balance, origin_amount) == current_origin_balance < origin_amount

\* services.py 131: f"Insufficient {origin_currency_id} balance. Current balance is {current_origin_balance}"
SwapShortMessage(origin_currency_id, current_origin_balance) ==
    [currency |-> origin_currency_id, need |-> {}, have |-> {current_origin_balance}]

\* services.py 136-139: the two entries written into the map the call read
SwapNewBalance(seen, origin, destination, origin_amount, destination_amount) ==
    Put(Put(seen, origin, DSub(Get(seen, origin), origin_amount)),
        destination, DAdd(Get(seen, destination), destination_amount))

\* services.py 143-157: Transaction.objects.create(...) of a swap
SwapRecord(req, destination_amount, rate) ==
    Save([user |-> req.user, wallet |-> req.user,
          base_currency |-> req.cur, base_amount |-> req.amount,
          destination_currency |-> req.dst, destination_amount |-> destination_amount,
          rate |-> rate,
          swap_origin_usd_rate |-> {req.price}, swap_destination_usd_rate |-> {req.dprice},
          transaction_type |-> "swap", status |-> "completed"])

\* services.py 166-169
SwapBalances(b, origin, destination) ==
    Put(Put(EmptyBalance, origin, Get(b, origin)), destination, Get(b, destination))

SwapInputs ==
    [user_id : UserIdInputs, origin_currency_id : CurrencyInputs,
     destination_currency_id : CurrencyInputs, origin_amount : AmountInputs,
     origin_quote : Quotes, destination_quote : Quotes]

SwapStatus(a) ==
    SwapValidate(a.user_id, a.origin_currency_id, a.destination_currency_id,
                 a.origin_amount, a.origin_quote, a.destination_quote)

SwapRejections == {SwapStatus(a) : a \in SwapInputs} \ {"ok"}

SwapRequest(a) ==
    [NoReq EXCEPT !.user = a.user_id, !.cur = a.origin_currency_id,
                  !.dst = a.destination_currency_id, !.amount = a.origin_amount.val,
                  !.price = a.origin_quote.usd, !.dprice = a.destination_quote.usd]

SwapRequests == {SwapRequest(a) : a \in {x \in SwapInputs : SwapStatus(x) = "ok"}}

\* a swap that looks the user up before it validates its arguments
SwapBeginUserFirst(p, v, req) ==
    IF req.user \notin users
    THEN /\ Return(p, Failure("swap", "error", req, EmptyBalance))
         /\ UNCHANGED wallet
    ELSE IF v # "ok"
    THEN /\ Return(p, Failure("swap", v, NoReq, EmptyBalance))
         /\ UNCHANGED wallet
    ELSE /\ WalletLookup(req.user)
         /\ Proceed(p, "swap", req, wallet[req.user].balance)

\* services.py 45-125: the outcome of the validation (status v), then the lookup
\* of the user and the wallet for the validated request
SwapBegin(p, v, req) ==
    IF v # "ok"
    THEN /\ Return(p, Failure("swap", v, NoReq, EmptyBalance))
         /\ UNCHANGED wallet
    ELSE IF req.user \notin users
    THEN \* get_object_or_404 raises Http404, caught at line 171
         /\ Return(p, Failure("swap", "error", req, EmptyBalance))
         /\ UNCHANGED wallet
    ELSE /\ WalletLookup(req.user)
         /\ Proceed(p, "swap", req, wallet[req.user].balance)

\* validation, prices and wallet lookup (services.py 43-125)
SwapRead(p) ==
    /\ call[p].pc = "idle"
    /\ ncalls < MaxCalls
    /\ ncalls' = ncalls + 1
    /\ UNCHANGED <<users, ledger>>
    /\ \/ \E v \in SwapRejections : SwapBegin(p, v, NoReq)
       \/ \E req \in SwapRequests : SwapBegin(p, "ok", req)

\* the funds check, the balance write and the ledger append (services.py 126-170)
SwapExecute(p) ==
    /\ call[p].pc = "swap"
    /\ UNCHANGED <<users, ncalls>>
    /\ LET req == call[p].req
           seen == call[p].seen
           destination_amount == SwapDestinationAmount(req.amount, req.price, req.dprice)
           rate == SwapRate(destination_amount, req.amount)
           new_balance == SwapNewBalance(seen, req.cur, req.dst, req.amount,
                                         destination_amount)
       IN  IF SwapShort(Get(seen, req.cur), req.amount)
           THEN /\ Return(p, WithMessage(Failure("swap", "insufficient_funds", req, seen),
                                         SwapShortMessage(req.cur, Get(seen, req.cur))))
                /\ UNCHANGED <<wallet, ledger>>
           ELSE \E persisted \in BOOLEAN :
                /\ wallet' = Atomic(persisted, wallet,
                                    [wallet EXCEPT ![req.user].balance = new_balance])
                /\ ledger' = Atomic(persisted, ledger,
                                    Create(ledger, SwapRecord(req, destination_amount, rate)))
                /\ Return(p, IF persisted
                             THEN Outcome("swap", TRUE, "completed", Len(ledger) + 1,
                                      SwapBalances(new_balance, req.cur, req.dst), req, seen)
                             ELSE \* the exception is caught at line 171
                                  Failure("swap", "error", req, seen))

(***************************************************************************)
(* wallet/utils.py: get_user_wallet and get_user_transactions.              *)
(* store[p] is the call of process p: its arguments q, the exception it     *)
(* raised, the wallet it returned and the rows it returned. A Transaction   *)
(* row is identified by its position in ledger, the order of creation and   *)
(* so of the auto_now_add timestamps.                                       *)
(***************************************************************************)
\* an optional argument: None, or a given number
None == [given |-> FALSE, val |-> 0]

Some(n) == [given |-> TRUE, val |-> n]

NoQuery ==
    [telegram_user_id |-> "", transaction_type |-> "", currency |-> "",
     limit |-> None, offset |-> None]

StoreIdle ==
    [pc |-> "idle", op |-> "", q |-> NoQuery, raised |-> "", found |-> NoWallet,
     rows |-> <<>>]

\* a call of the wallet store ends: with an exception, a wallet or a sequence of rows
StoreReturn(p, op, q, raised, found, rows) ==
    store' = [store EXCEPT ![p] = [pc |-> "idle", op |-> op, q |-> q, raised |-> raised,
                                   found |-> found, rows |-> rows]]

\* a lookup that takes every user id for the id of a User
UserAssumed(u) == TRUE

\* get_object_or_404(User, user_id=telegram_user_id) finds a User
UserExists(u) == u \in users

\* the Wallet row of user id u, if any
WalletOf(u) == IF u \in DOMAIN wallet THEN wallet[u] ELSE NoWallet

\* wallet/utils.py 123 and 126-129, the SELECT of get_or_create: Http404 for an
\* unknown user, the wallet if there is one, else on to the INSERT
WalletGet(p, u) ==
    /\ store[p].pc = "idle"
    /\ call[p].pc = "idle"
    /\ UNCHANGED <<users, wallet, ledger, call, result, ncalls, args, wallets, lock>>
    /\ LET q == [NoQuery EXCEPT !.telegram_user_id = u]
       IN  IF ~UserExists(u)
           THEN StoreReturn(p, "get_user_wallet", q, "Http404", NoWallet, <<>>)
           ELSE IF WalletOf(u).exists
           THEN StoreReturn(p, "get_user_wallet", q, "", WalletOf(u), <<>>)
           ELSE store' = [store EXCEPT ![p] = [StoreIdle EXCEPT !.pc = "create",
                                                   !.op = "get_user_wallet", !.q = q]]

\* the INSERT of get_or_create: on the IntegrityError of the unique constraint
\* get_or_create reads the row another call has created meanwhile
WalletCreate(p) ==
    /\ store[p].pc = "create"
    /\ UNCHANGED <<users, ledger, call, result, ncalls, args, lock>>
    /\ LET q == store[p].q
           u == q.telegram_user_id
           created == [exists |-> TRUE, balance |-> EmptyBalance]
       IN  IF UniqueViolation(wallets[u])
           THEN /\ StoreReturn(p, "get_user_wallet", q, "", WalletOf(u), <<>>)
                /\ UNCHANGED <<wallet, wallets>>
           ELSE /\ wallets' = [wallets EXCEPT ![u] = @ + 1]
                /\ wallet' = [v \in DOMAIN wallet |-> IF v = u THEN created ELSE wallet[v]]
                /\ StoreReturn(p, "get_user_wallet", q, "", created, <<>>)

\* the positions n, n-1, .., 1 of ledger l that hold a row of user u, newest first
RECURSIVE NewestOf(_, _, _)
NewestOf(l, n, u) ==
    IF n = 0 THEN <<>>
    ELSE IF l[n].user = u THEN <<n>> \o NewestOf(l, n - 1, u)
    ELSE NewestOf(l, n - 1, u)

\* wallet/utils.py 158: user.transactions.all().order_by('-timestamp')
UserTransactions(l, u) == NewestOf(l, Len(l), u)

\* wallet/utils.py 161-162: .filter(transaction_type=transaction_type)
FilterType(l, rows, transaction_type) ==
    IF transaction_type # ""
    THEN SelectSeq(rows, LAMBDA i : l[i].transaction_type = transaction_type)
    ELSE rows

\* wallet/utils.py 164-169: Q(base_currency=currency) | Q(to_currency=currency);
\* Transaction has no field to_currency (models.py 46-47), so building the filter
\* raises FieldError
CurrencyFilterRaises(currency) == currency # ""

\* wallet/utils.py 172-173: transactions[offset:]
SliceFrom(rows, offset) ==
    IF offset.given THEN SubSeq(rows, offset.val + 1, Len(rows)) ELSE rows

\* wallet/utils.py 174-175: transactions[:limit]
SliceTo(rows, limit) ==
    IF limit.given
    THEN SubSeq(rows, 1, IF limit.val < Len(rows) THEN limit.val ELSE Len(rows))
    ELSE rows

\* the arguments of get_user_transactions; offset and limit are not negative
TypeInputs == {"", "buy", "sell", "swap"}

PageInputs == {None, Some(0), Some(1), Some(2)}

QueryInputs ==
    [telegram_user_id : UserIds, transaction_type : TypeInputs,
     currency : {"", "usd", "bitcoin", "ethereum"}, limit : PageInputs,
     offset : PageInputs]

\* wallet/utils.py 133-177
GetUserTransactions(p, q) ==
    /\ store[p].pc = "idle"
    /\ call[p].pc = "idle"
    /\ UNCHANGED <<users, wallet, ledger, call, result, ncalls, args, wallets, lock>>
    /\ IF ~UserExists(q.telegram_user_id)
       THEN StoreReturn(p, "get_user_transactions", q, "Http404", NoWallet, <<>>)
       ELSE IF CurrencyFilterRaises(q.currency)
       THEN StoreReturn(p, "get_user_transactions", q, "FieldError", NoWallet, <<>>)
       ELSE StoreReturn(p, "get_user_transactions", q, "", NoWallet,
                SliceTo(SliceFrom(FilterType(ledger,
                                             UserTransactions(ledger, q.telegram_user_id),
                                             q.transaction_type),
                                  q.offset),
                        q.limit))

(***************************************************************************)
(* wallet/utils.py: update_wallet, the mutation under SELECT ... FOR UPDATE. *)
(* lock[u] is the process that holds the row lock of u's wallet, "" if none. *)
(***************************************************************************)
\* a database without row locks
LockIgnored(l, u) == TRUE

\* the row lock of u's wallet can be taken
LockFree(l, u) == l[u] = ""

UpdateInputs ==
    [user : Users, base_currency : {"bitcoin"}, quote_currency : {"usd", "bitcoin"},
     amount : {D(0), D(1)}, price : {D(0), D(1)}, transaction_type : {"buy", "sell", "hold"}]

\* wallet/utils.py 36-51: the exception the validation raises, "" if none
UpdateValidate(a) ==
    IF a.amount = 0 \/ a.price = 0 THEN "ValueError"
    ELSE IF a.amount <= 0 \/ a.price <= 0 THEN "ValueError"
    ELSE IF a.base_currency = a.quote_currency THEN "ValidationError"
    ELSE ""

\* wallet/utils.py 66-86: the exception the balance check raises, "" if none
UpdateCheck(a, balance) ==
    LET base_balance == Get(balance, a.base_currency)
        quote_balance == Get(balance, a.quote_currency)
        total_value == DMul(a.amount, a.price)
    IN  IF a.transaction_type = "buy"
        THEN IF quote_balance < total_value THEN "InsufficientFundsError" ELSE ""
        ELSE IF a.transaction_type = "sell"
        THEN IF base_balance < a.amount THEN "InsufficientFundsError" ELSE ""
        ELSE "ValueError"

\* wallet/utils.py 36-53: validation, then transaction.atomic() is entered
UpdateBegin(p, a) ==
    /\ store[p].pc = "idle"
    /\ call[p].pc = "idle"
    /\ UNCHANGED <<users, wallet, ledger, call, result, ncalls, args, wallets, lock>>
    /\ IF UpdateValidate(a) # ""
       THEN StoreReturn(p, "update_wallet", a, UpdateValidate(a), NoWallet, <<>>)
       ELSE store' = [store EXCEPT ![p] = [StoreIdle EXCEPT !.pc = "lock",
                                               !.op = "update_wallet", !.q = a]]

\* wallet/utils.py 56: Wallet.objects.select_for_update().get(user=user) waits for
\* the row lock, takes it and reads the row; without a row it raises DoesNotExist
UpdateLock(p) ==
    /\ store[p].pc = "lock"
    /\ UNCHANGED <<users, wallet, ledger, call, result, ncalls, args, wallets>>
    /\ LET a == store[p].q
       IN  IF ~wallet[a.user].exists
           THEN /\ StoreReturn(p, "update_wallet", a, "DoesNotExist", NoWallet, <<>>)
                /\ UNCHANGED lock
           ELSE /\ LockFree(lock, a.user)
                /\ lock' = [lock EXCEPT ![a.user] = p]
                /\ store' = [store EXCEPT ![p].pc = "write", ![p].found = wallet[a.user]]

\* wallet/utils.py 58-105: the balance check, wallet.save() and
\* Transaction.objects.create(quote_currency=, amount=, price=, total_value=, ..):
\* Transaction has none of these fields (models.py 41-89), so create raises
\* TypeError; every exception leaves the atomic block, which rolls the wallet
\* write back and releases the row lock
UpdateWrite(p) ==
    /\ store[p].pc = "write"
    /\ UNCHANGED <<users, wallet, ledger, call, result, ncalls, args, wallets>>
    /\ LET a == store[p].q
           raised == UpdateCheck(a, store[p].found.balance)
       IN  /\ lock' = [lock EXCEPT ![a.user] = ""]
           /\ StoreReturn(p, "update_wallet", a,
                          IF raised # "" THEN raised ELSE "TypeError", store[p].found, <<>>)

(***************************************************************************)
(* The database a behaviour starts from: empty, or one of three states the  *)
(* engine reaches from the empty database for user u1: deposits of 1 and 2; *)
(* then a buy of 2 bitcoin at 1; then a swap of 1 bitcoin for ethereum at  *)
(* prices 1 and 3.                                                          *)
(***************************************************************************)
SeedDeposited == DepositNewUsd(DepositNewUsd(0, D(1)), D(2))

SeedBuy ==
    [NoReq EXCEPT !.user = "u1", !.cur = "bitcoin", !.amount = D(2), !.side = "buy",
                  !.price = D(1)]

SeedSwap ==
    [NoReq EXCEPT !.user = "u1", !.cur = "bitcoin", !.dst = "ethereum", !.amount = D(1),
                  !.price = D(1), !.dprice = D(3)]

SeedFunded == Put(EmptyBalance, "usd", SeedDeposited)

SeedBought ==
    LET usd_value == UsdValue(SeedBuy.amount, SeedBuy.price)
    IN  TradeNewBalance(SeedFunded, "bitcoin", BuyNewUsd(SeedDeposited, usd_value),
                        BuyNewCrypto(0, SeedBuy.amount))

SeedSwapped ==
    SwapNewBalance(SeedBought, "bitcoin", "ethereum", SeedSwap.amount,
                   SwapDestinationAmount(SeedSwap.amount, SeedSwap.price, SeedSwap.dprice))

SeedBuyRecord == BuyRecord(SeedBuy, UsdValue(SeedBuy.amount, SeedBuy.price))

SeedSwapRecord ==
    LET destination_amount ==
            SwapDestinationAmount(SeedSwap.amount, SeedSwap.price, SeedSwap.dprice)
    IN  SwapRecord(SeedSwap, destination_amount,
                   SwapRate(destination_amount, SeedSwap.amount))

Databases ==
    {[w |-> NoWallet, l |-> <<>>],
     [w |-> [exists |-> TRUE, balance |-> SeedFunded], l |-> <<>>],
     [w |-> [exists |-> TRUE, balance |-> SeedBought], l |-> <<SeedBuyRecord>>],
     [w |-> [exists |-> TRUE, balance |-> SeedSwapped],
      l |-> <<SeedBuyRecord, SeedSwapRecord>>]}

InitDatabase ==
    /\ users = Users
    /\ \E db \in Databases :
        /\ wallet = [u \in Users |-> IF u = "u1" THEN db.w ELSE NoWallet]
        /\ ledger = db.l
    /\ wallets = [u \in UserIds |-> IF u \in Users /\ wallet[u].exists THEN 1 ELSE 0]
    /\ call = [p \in Procs |-> Idle]
    /\ result = [p \in Procs |-> NoResult]
    /\ ncalls = 0
    /\ store = [p \in Procs |-> StoreIdle]
    /\ lock = [u \in Users |-> ""]

Init ==
    /\ InitDatabase
    /\ args = [p \in Procs |-> NoArgs]

(***************************************************************************)
(* The handlers run as concurrent requests.                                 *)
(***************************************************************************)
Step(p) ==
    \/ DepositRead(p)
    \/ DepositWrite(p)
    \/ TradeRead(p)
    \/ TradeExecute(p)
    \/ SwapRead(p)
    \/ SwapExecute(p)

Next == \E p \in Procs : Step(p)

Spec == Init /\ [][Next]_vars

\* one request at a time: a call starts only when no other call is in progress
SeqNext == \E p \in Procs : (\A q \in Procs \ {p} : call[q].pc = "idle") /\ Step(p)

SeqSpec == Init /\ [][SeqNext]_vars

(***************************************************************************)
(* The handlers called with one given argument list, which the callers      *)
(* keep: every argument list of the input sets, by every caller.            *)
(***************************************************************************)
CallInputs ==
    {[op |-> "deposit", arg |-> a] : a \in DepositInputs}
        \cup {[op |-> "trade", arg |-> a] : a \in TradeInputs}
        \cup {[op |-> "swap", arg |-> a] : a \in SwapInputs}

CallInit ==
    /\ InitDatabase
    /\ \E a \in CallInputs : args = [p \in Procs |-> a]

DepositCall(p) ==
    /\ call[p].pc = "idle"
    /\ args[p].op = "deposit"
    /\ ncalls < MaxCalls
    /\ ncalls' = ncalls + 1
    /\ UNCHANGED <<users, ledger>>
    /\ DepositBegin(p, DepositStatus(args[p].arg), DepositRequest(args[p].arg))

TradeCall(p) ==
    /\ call[p].pc = "idle"
    /\ args[p].op = "trade"
    /\ ncalls < MaxCalls
    /\ ncalls' = ncalls + 1
    /\ UNCHANGED <<users, ledger>>
    /\ TradeBegin(p, TradeStatus(args[p].arg), TradeRequest(args[p].arg))

SwapCall(p) ==
    /\ call[p].pc = "idle"
    /\ args[p].op = "swap"
    /\ ncalls < MaxCalls
    /\ ncalls' = ncalls + 1
    /\ UNCHANGED <<users, ledger>>
    /\ SwapBegin(p, SwapStatus(args[p].arg), SwapRequest(args[p].arg))

CallStep(p) ==
    \/ DepositCall(p)
    \/ DepositWrite(p)
    \/ TradeCall(p)
    \/ TradeExecute(p)
    \/ SwapCall(p)
    \/ SwapExecute(p)

CallNext == \E p \in Procs : CallStep(p)

CallSpec == CallInit /\ [][CallNext]_vars

(***************************************************************************)
(* The engine together with the wallet store.  The database also holds what *)
(* user u2 reaches by a deposit of 3 and a buy of 2 bitcoin at 1, before or *)
(* after the rows of u1.  Process p1 makes any call of the wallet store or  *)
(* one of the engine calls of StoreCalls; p2 makes one of the engine calls  *)
(* or looks a wallet up.                                                    *)
(***************************************************************************)
SeedBuy2 == [SeedBuy EXCEPT !.user = "u2"]

Databases2 ==
    {[w |-> NoWallet, l |-> <<>>],
     [w |-> [exists |-> TRUE, balance |-> SeedBought],
      l |-> <<BuyRecord(SeedBuy2, UsdValue(SeedBuy2.amount, SeedBuy2.price))>>]}

\* what services.py receives for a number and for a quote
Num(n) == [kind |-> "num", val |-> D(n)]

Quoted(n) == [avail |-> TRUE, usd |-> D(n)]

StoreCalls ==
    {[op |-> "deposit", arg |-> [user_id |-> "u2", amount |-> Num(2)]],
     [op |-> "trade",
      arg |-> [user_id |-> "u2", cryptocurrency_id |-> "bitcoin", amount |-> Num(1),
               transaction_type |-> "sell", quote |-> Quoted(1)]],
     [op |-> "trade",
      arg |-> [user_id |-> "u1", cryptocurrency_id |-> "ethereum", amount |-> Num(1),
               transaction_type |-> "buy", quote |-> Quoted(1)]],
     [op |-> "swap",
      arg |-> [user_id |-> "u1", origin_currency_id |-> "bitcoin",
               destination_currency_id |-> "ethereum", origin_amount |-> Num(1),
               origin_quote |-> Quoted(1), destination_quote |-> Quoted(1)]]}

WalletCalls ==
    {[op |-> "get_user_wallet", arg |-> [NoQuery EXCEPT !.telegram_user_id = u]] : u \in UserIds}

ListCalls == {[op |-> "get_user_transactions", arg |-> q] : q \in QueryInputs}

InitDatabase2 ==
    /\ users = Users
    /\ \E db \in Databases, db2 \in Databases2 :
        /\ wallet = [u \in Users |-> IF u = "u1" THEN db.w ELSE db2.w]
        /\ ledger \in {db.l \o db2.l, db2.l \o db.l}
    /\ wallets = [u \in UserIds |-> IF u \in Users /\ wallet[u].exists THEN 1 ELSE 0]
    /\ call = [p \in Procs |-> Idle]
    /\ result = [p \in Procs |-> NoResult]
    /\ ncalls = 0
    /\ store = [p \in Procs |-> StoreIdle]
    /\ lock = [u \in Users |-> ""]

StoreInit ==
    /\ InitDatabase2
    /\ \E a \in StoreCalls \cup WalletCalls \cup ListCalls, b \in StoreCalls \cup WalletCalls :
          args = [p \in Procs |-> IF p = "p1" THEN a ELSE b]

WalletCall(p) ==
    /\ args[p].op = "get_user_wallet"
    /\ WalletGet(p, args[p].arg.telegram_user_id)

ListCall(p) ==
    /\ args[p].op = "get_user_transactions"
    /\ GetUserTransactions(p, args[p].arg)

StoreStep(p) ==
    \/ DepositCall(p)
    \/ DepositWrite(p)
    \/ TradeCall(p)
    \/ TradeExecute(p)
    \/ SwapCall(p)
    \/ SwapExecute(p)
    \/ WalletCall(p)
    \/ WalletCreate(p)
    \/ ListCall(p)

StoreNext == \E p \in Procs : StoreStep(p)

StoreSpec == StoreInit /\ [][StoreNext]_vars

(***************************************************************************)
(* Concurrent calls of update_wallet.                                       *)
(***************************************************************************)
LockInit ==
    /\ InitDatabase2
    /\ args = [p \in Procs |-> NoArgs]

LockStep(p) ==
    \/ \E a \in UpdateInputs : UpdateBegin(p, a)
    \/ UpdateLock(p)
    \/ UpdateWrite(p)

LockNext == \E p \in Procs : LockStep(p)

LockSpec == LockInit /\ [][LockNext]_vars

(***************************************************************************)
(* Trades over a Coin table that may also hold a row with id 'usd': the     *)
(* callers keep their argument list and the rows of the table.              *)
(***************************************************************************)
Catalogs == {Coins, Coins \cup {"usd"}}

CatalogInit ==
    /\ InitDatabase
    /\ \E a \in TradeInputs : \E coins \in Catalogs :
          args = [p \in Procs |-> [op |-> "trade", arg |-> a, coins |-> coins]]

CatalogTradeCall(p) ==
    /\ call[p].pc = "idle"
    /\ ncalls < MaxCalls
    /\ ncalls' = ncalls + 1
    /\ UNCHANGED <<users, ledger>>
    /\ LET a == args[p].arg
       IN  TradeBegin(p, TradeValidateIn(args[p].coins, a.user_id, a.cryptocurrency_id,
                                         a.amount, a.transaction_type, a.quote),
                      TradeRequest(a))

CatalogStep(p) ==
    \/ CatalogTradeCall(p)
    \/ TradeExecute(p)

CatalogNext == \E p \in Procs : CatalogStep(p)

CatalogSpec == CatalogInit /\ [][CatalogNext]_vars

(***************************************************************************)
(* Properties.  Amounts are compared exactly, in units of 1/Q.              *)
(***************************************************************************)
Currencies == Coins \cup {"usd"}

Finished(p) == call[p].pc = "idle"

\* the exact product of an amount and a price
Times(amount, price) == (amount * price) \div Q

\* what a successful call reported to have added to the balance of currency c
Change(r, c) ==
    IF r.op = "deposit" THEN (IF c = "usd" THEN r.req.amount ELSE 0)
    ELSE IF c \in DOMAIN r.final_balances THEN r.final_balances[c] - Get(r.seen, c)
    ELSE 0

IsSell(r) ==
    r.op = "trade" /\ r.req.side = "sell" /\ r.status \in {"completed", "insufficient_funds"}

\* C1: every balance of every wallet is non-negative in every state a reader can
\* observe, whatever the interleaving of deposits, trades and swaps.
C1_NonNegative ==
    \A u \in Users : \A c \in DOMAIN wallet[u].balance : wallet[u].balance[c] >= 0

\* C2: of two sells of one currency of one wallet that were issued against the same
\* balance, each within it and together above it, exactly one succeeds, the other
\* returns insufficient_funds, and the wallet ends as the balance they read with the
\* successful sell alone applied.
C2_ConcurrentSells ==
    \A p, q \in Procs :
        LET rp == result[p]
            rq == result[q]
            u == rp.req.user
            c == rp.req.cur
            held == Get(rp.seen, c)
        IN  ( /\ p # q /\ Finished(p) /\ Finished(q)
              /\ IsSell(rp) /\ IsSell(rq)
              /\ rq.req.user = u /\ rq.req.cur = c
              /\ SameBalance(rp.seen, rq.seen)
              /\ rp.req.amount <= held /\ rq.req.amount <= held
              /\ rp.req.amount + rq.req.amount > held )
            => \E w \in {p, q} :
                   LET r == result[w]
                       l == result[CHOOSE x \in {p, q} : x # w]
                   IN  /\ r.success
                       /\ ~l.success /\ l.status = "insufficient_funds"
                       /\ Bal(u, c) = held - r.req.amount
                       /\ Bal(u, "usd") = Get(r.seen, "usd") + Times(r.req.amount, r.req.price)

\* C3: the mutating operations on one wallet are serialized: when a call writes the
\* wallet, the stored balances are still the ones the call read and checked, so no
\* other mutating operation ran on that wallet in between.
C3_Serialized ==
    [][\A p \in Procs :
          (call[p].pc # "idle" /\ call'[p].pc = "idle" /\ result'[p].success)
          => SameBalance(call[p].seen, wallet[call[p].req.user].balance)]_vars

\* C4: no money is lost or duplicated when a deposit overlaps another mutating call
\* on the same wallet: once both have succeeded, every balance is the one both read
\* plus what each of the two calls added to it.
C4_DepositsAddUp ==
    \A p, q \in Procs :
        LET rp == result[p]
            rq == result[q]
            u == rp.req.user
        IN  ( /\ p # q /\ Finished(p) /\ Finished(q)
              /\ rp.success /\ rq.success
              /\ rp.op = "deposit" /\ rq.req.user = u
              /\ SameBalance(rp.seen, rq.seen) )
            => \A c \in Currencies :
                   Bal(u, c) = Get(rp.seen, c) + Change(rp, c) + Change(rq, c)

\* C5: a call that returns success = false has created no Transaction and changed no
\* balance of any wallet: a step changes a balance or the ledger only if it is the
\* step at which a call returns success = true.
C5_FailureHasNoEffect ==
    [][( \/ ledger' # ledger
         \/ \E u \in Users : \E c \in Currencies :
                Get(wallet'[u].balance, c) # Get(wallet[u].balance, c) )
       => \E p \in Procs :
              /\ call[p].pc # "idle" /\ call'[p].pc = "idle"
              /\ result'[p].success
              /\ \A q \in Procs \ {p} : call'[q] = call[q] /\ result'[q] = result[q]]_vars

\* C5 witness: a sell, a buy or a swap went as far as its funds check and returned
\* insufficient_funds while the wallet held money and the ledger a row
C5_Witness ==
    \E p \in Procs :
        /\ Finished(p)
        /\ ~result[p].success /\ result[p].status = "insufficient_funds"
        /\ Bal(result[p].req.user, "usd") > 0
        /\ Len(ledger) > 0

\* C6: a buy that passed validation succeeds exactly when the wallet's usd balance
\* is at least amount * p; the new balances are then usd - amount * p and
\* currency + amount; otherwise the call returns insufficient_funds.
C6_Buy ==
    [][\A p \in Procs :
          (call[p].pc = "trade" /\ call[p].req.side = "buy" /\ call'[p].pc = "idle"
             /\ result'[p].status # "error")
          => LET req == call[p].req
                 u == req.user
                 cost == Times(req.amount, req.price)
                 usd == Bal(u, "usd")
                 held == Bal(u, req.cur)
             IN  IF usd >= cost
                 THEN /\ result'[p].success
                      /\ Get(wallet'[u].balance, "usd") = usd - cost
                      /\ Get(wallet'[u].balance, req.cur) = held + req.amount
                 ELSE /\ ~result'[p].success
                      /\ result'[p].status = "insufficient_funds"]_vars

\* C7: a sell that passed validation succeeds exactly when the wallet's balance of
\* the currency is at least amount; the new balances are then usd + amount * p and
\* currency - amount.
C7_Sell ==
    [][\A p \in Procs :
          (call[p].pc = "trade" /\ call[p].req.side = "sell" /\ call'[p].pc = "idle"
             /\ result'[p].status # "error")
          => LET req == call[p].req
                 u == req.user
                 proceeds == Times(req.amount, req.price)
                 usd == Bal(u, "usd")
                 held == Bal(u, req.cur)
             IN  /\ result'[p].success <=> held >= req.amount
                 /\ result'[p].success
                    => /\ Get(wallet'[u].balance, "usd") = usd + proceeds
                       /\ Get(wallet'[u].balance, req.cur) = held - req.amount]_vars

\* C8: a successful trade stores exactly one Transaction: for a buy, base currency
\* usd, base amount amount * price, destination currency the traded currency and
\* destination amount amount; for a sell the reverse; in both the rate is the price.
C8_TradeRecord ==
    [][\A p \in Procs :
          (call[p].pc = "trade" /\ call'[p].pc = "idle" /\ result'[p].success)
          => LET req == call[p].req
                 value == Times(req.amount, req.price)
                 t == ledger'[Len(ledger')]
             IN  /\ Len(ledger') = Len(ledger) + 1
                 /\ SubSeq(ledger', 1, Len(ledger)) = ledger
                 /\ t.transaction_type = req.side
                 /\ t.rate = req.price
                 /\ IF req.side = "buy"
                    THEN /\ t.base_currency = "usd" /\ t.base_amount = value
                         /\ t.destination_currency = req.cur
                         /\ t.destination_amount = req.amount
                    ELSE /\ t.base_currency = req.cur /\ t.base_amount = req.amount
                         /\ t.destination_currency = "usd"
                         /\ t.destination_amount = value]_vars

\* C9: a swap of a units of X for Y at prices pX and pY succeeds exactly when
\* balance[X] >= a; then balance[X] decreases by a and balance[Y] increases by
\* exactly a * pX / pY; otherwise it returns insufficient_funds, the balances are
\* unchanged and no Transaction is created.
C9_Swap ==
    [][\A p \in Procs :
          (call[p].pc = "swap" /\ call'[p].pc = "idle" /\ result'[p].status # "error")
          => LET req == call[p].req
                 u == req.user
                 gained == Get(wallet'[u].balance, req.dst) - Bal(u, req.dst)
             IN  IF Bal(u, req.cur) >= req.amount
                 THEN /\ result'[p].success
                      /\ Get(wallet'[u].balance, req.cur) = Bal(u, req.cur) - req.amount
                      /\ gained * req.dprice = req.amount * req.price
                 ELSE /\ ~result'[p].success
                      /\ result'[p].status = "insufficient_funds"
                      /\ wallet' = wallet
                      /\ ledger' = ledger]_vars

\* C10: a successful swap stores exactly one Transaction of type swap with base
\* currency X, base amount a, destination currency Y, destination amount
\* a * originUSD / destUSD, rate destination amount / a and both swap USD legs set
\* to the prices; the Transaction of a buy or a sell has both swap legs empty.
C10_SwapRecord ==
    [][/\ \A p \in Procs :
            (call[p].pc = "swap" /\ call'[p].pc = "idle" /\ result'[p].success)
            => LET req == call[p].req
                   t == ledger'[Len(ledger')]
               IN  /\ Len(ledger') = Len(ledger) + 1
                   /\ SubSeq(ledger', 1, Len(ledger)) = ledger
                   /\ t.transaction_type = "swap"
                   /\ t.base_currency = req.cur /\ t.base_amount = req.amount
                   /\ t.destination_currency = req.dst
                   /\ t.destination_amount * req.dprice = req.amount * req.price
                   /\ t.rate * req.amount = t.destination_amount * Q
                   /\ t.swap_origin_usd_rate = {req.price}
                   /\ t.swap_destination_usd_rate = {req.dprice}
       /\ \A i \in DOMAIN ledger' :
            ledger'[i].transaction_type \in {"buy", "sell"}
            => /\ ledger'[i].swap_origin_usd_rate = {}
               /\ ledger'[i].swap_destination_usd_rate = {}]_vars

\* C11: a successful deposit increases the wallet's usd balance by exactly amount
\* (a missing usd entry counting as 0), returns that final usd balance in its
\* result and creates no Transaction.
C11_Deposit ==
    [][\A p \in Procs :
          (call[p].pc = "deposit" /\ call'[p].pc = "idle" /\ result'[p].success)
          => LET req == call[p].req
                 u == req.user
             IN  /\ Get(wallet'[u].balance, "usd") = Bal(u, "usd") + req.amount
                 /\ result'[p].final_balances["USD"] = Get(wallet'[u].balance, "usd")
                 /\ ledger' = ledger]_vars

\* the balances of every wallet and the user table are left as they were
NothingChanged ==
    /\ users' = users
    /\ ledger' = ledger
    /\ \A u \in Users : \A c \in Currencies :
           Get(wallet'[u].balance, c) = Get(wallet[u].balance, c)

\* an amount that is missing, not numeric, zero or negative
BadAmount(a) == a.kind # "num" \/ a.val <= 0

C13_SelfSwap ==
    [][\A p \in Procs :
          LET a == args[p].arg
          IN  ( /\ args[p].op = "swap"
                /\ a.user_id # "" /\ a.origin_currency_id # ""
                /\ a.origin_currency_id = a.destination_currency_id
                /\ ~BadAmount(a.origin_amount) )
              => /\ result'[p].op = "swap"
                    => ~result'[p].success /\ result'[p].status = "invalid_pair"
                 /\ NothingChanged]_vars

\* C13 witness: self-swaps were rejected for an unknown user, for an unsupported
\* currency and for a currency without a price
C13_Witness ==
    \E p \in Procs :
        LET a == args[p].arg
        IN  /\ args[p].op = "swap" /\ result[p].op = "swap"
            /\ result[p].status = "invalid_pair"
            /\ a.origin_currency_id = a.destination_currency_id
            /\ \/ a.user_id = "u9"
               \/ a.origin_currency_id = "dogecoin"
               \/ ~a.origin_quote.avail

\* a trade argument list that passes the checks on presence, amount and side
TradeWellFormed(a) ==
    /\ a.user_id # "" /\ a.cryptocurrency_id # ""
    /\ ~BadAmount(a.amount)
    /\ Lower(a.transaction_type) \in {"buy", "sell"}

\* C14: a trade succeeds only for an active entry of the currency catalog: for a
\* currencyID that is absent from the catalog or present but inactive, the trade
\* returns unsupported_currency and changes nothing.
C14_TradeCatalog ==
    [][\A p \in Procs :
          LET a == args[p].arg
          IN  ( /\ args[p].op = "trade"
                /\ TradeWellFormed(a)
                /\ Lower(a.cryptocurrency_id) \notin ActiveCoins )
              => /\ result'[p].op = "trade"
                    => ~result'[p].success /\ result'[p].status = "unsupported_currency"
                 /\ NothingChanged]_vars

\* a quote a trade or swap may execute at: present and greater than zero
PositiveQuote(q) == q.avail /\ q.usd > 0

\* C15: a trade executes only at a positive price: when the quote of an active
\* currency is missing, zero or negative, the trade returns price_unavailable
\* and changes nothing.
C15_TradePrice ==
    [][\A p \in Procs :
          LET a == args[p].arg
          IN  ( /\ args[p].op = "trade"
                /\ TradeWellFormed(a)
                /\ Lower(a.cryptocurrency_id) \in ActiveCoins
                /\ ~PositiveQuote(a.quote) )
              => /\ result'[p].op = "trade"
                    => ~result'[p].success /\ result'[p].status = "price_unavailable"
                 /\ NothingChanged]_vars

\* a swap argument list that passes the checks on presence, amount and pair
SwapWellFormed(a) ==
    /\ a.user_id # "" /\ a.origin_currency_id # "" /\ a.destination_currency_id # ""
    /\ ~BadAmount(a.origin_amount)
    /\ a.origin_currency_id # a.destination_currency_id

SwapSupported(a) ==
    a.origin_currency_id \in ActiveCoins /\ a.destination_currency_id \in ActiveCoins

SwapPriced(a) == a.origin_quote.avail /\ a.destination_quote.avail

\* C16: a swap succeeds only if both currencies are active catalog entries and
\* both have a USD price: with an unsupported currency it returns
\* unsupported_currency, with both supported and a price missing it returns
\* price_unavailable, and in either case nothing changes.
C16_SwapCatalogAndPrice ==
    [][\A p \in Procs :
          LET a == args[p].arg
              done == result'[p].op = "swap"
          IN  (args[p].op = "swap" /\ SwapWellFormed(a))
              => /\ (done /\ result'[p].success) => (SwapSupported(a) /\ SwapPriced(a))
                 /\ ~SwapSupported(a)
                       => /\ done => ~result'[p].success
                                       /\ result'[p].status = "unsupported_currency"
                          /\ NothingChanged
                 /\ (SwapSupported(a) /\ ~SwapPriced(a))
                       => /\ done => ~result'[p].success
                                       /\ result'[p].status = "price_unavailable"
                          /\ NothingChanged]_vars

\* a swap into the inactive dogecoin by an existing user, with both prices
\* quoted, has been rejected as unsupported_currency
C16_Witness ==
    \E p \in Procs :
        LET a == args[p].arg
        IN  /\ args[p].op = "swap" /\ SwapWellFormed(a)
            /\ a.user_id \in users
            /\ a.origin_currency_id \in ActiveCoins
            /\ a.destination_currency_id = "dogecoin"
            /\ PositiveQuote(a.origin_quote) /\ PositiveQuote(a.destination_quote)
            /\ result[p].op = "swap" /\ result[p].status = "unsupported_currency"

\* the argument list of process p passes the whole validation of its operation,
\* with active currencies and positive prices
PassesValidation(p) ==
    LET a == args[p].arg
    IN  \/ /\ args[p].op = "trade" /\ TradeStatus(a) = "ok"
           /\ Lower(a.cryptocurrency_id) \in ActiveCoins
           /\ PositiveQuote(a.quote)
        \/ /\ args[p].op = "swap" /\ SwapStatus(a) = "ok"
           /\ PositiveQuote(a.origin_quote) /\ PositiveQuote(a.destination_quote)

\* C17: a trade or swap that passes the input, catalog and price validation but
\* names a user that does not exist returns not_found and changes nothing.
C17_UnknownUser ==
    [][\A p \in Procs :
          (PassesValidation(p) /\ args[p].arg.user_id \notin users)
              => /\ result'[p].op = args[p].op
                    => ~result'[p].success /\ result'[p].status = "not_found"
                 /\ NothingChanged]_vars

\* the status codes of the error taxonomy
Taxonomy ==
    {"invalid_input", "invalid_pair", "unsupported_currency", "price_unavailable",
     "insufficient_funds", "not_found", "error"}

\* C18: every finished call of deposit, trade or swap has returned a result,
\* and every result that reports a failure carries a status of the taxonomy.
C18_Taxonomy ==
    \A p \in Procs :
        (result[p].op # "" /\ ~result[p].success) => result[p].status \in Taxonomy

\* process p takes the write step of its call and the step reports a failure
\* other than a shortage of funds: the persistence layer has failed
WriteFailed(p) ==
    /\ call[p].pc # "idle" /\ call'[p].pc = "idle"
    /\ ~result'[p].success
    /\ result'[p].status # "insufficient_funds"

\* C19: when the persistence layer fails during the wallet write or the
\* transaction append of a deposit, trade or swap, neither the balance change
\* nor the transaction record persists and the result has status error.
C19_Rollback ==
    [][\A p \in Procs :
          WriteFailed(p)
              => /\ wallet' = wallet /\ ledger' = ledger
                 /\ result'[p].status = "error"]_vars

\* process p calls get_user_wallet for an existing user and goes on with its call
Lookup(p) == call[p].pc = "idle" /\ call'[p].pc # "idle"

\* C20: GetOrCreateWallet is idempotent: for an existing user without a wallet
\* the first call creates a wallet with an empty balance, and a call for a user
\* who has a wallet returns it with its balance unchanged; no call touches the
\* wallet of another user, and a wallet once created stays.
C20_GetOrCreateIdempotent ==
    [][/\ \A p \in Procs :
             Lookup(p)
                 => LET u == call'[p].req.user
                    IN  /\ wallet'[u].exists
                        /\ IF wallet[u].exists
                           THEN wallet'[u] = wallet[u]
                           ELSE wallet'[u].balance = EmptyBalance
                        /\ \A v \in Users \ {u} : wallet'[v] = wallet[v]
       /\ \A u \in Users : wallet[u].exists => wallet'[u].exists]_vars

\* two calls have looked up the wallet of the same new user: it exists, it is
\* empty, and both calls read the same empty balance
C20_Witness ==
    \E u \in Users :
        /\ wallet[u] = [exists |-> TRUE, balance |-> EmptyBalance]
        /\ \A p \in Procs :
              /\ call[p].pc \in {"trade", "swap"}
              /\ call[p].req.user = u
              /\ call[p].seen = EmptyBalance

(***************************************************************************)
(* Properties of the wallet store.                                          *)
(***************************************************************************)
\* process p ends a call of the wallet store in this step
StoreReturns(p) == store'[p] # store[p] /\ store'[p].pc = "idle"

\* C21: get_user_wallet and get_user_transactions called with a user id that no
\* User has fail with Http404 (NotFound) and create no User, no Wallet and no
\* Transaction.
C21_UnknownUserLookup ==
    [][\A p \in Procs :
          ( /\ args[p].op \in {"get_user_wallet", "get_user_transactions"}
            /\ args[p].arg.telegram_user_id \notin users
            /\ store'[p] # store[p] )
              => /\ store'[p].pc = "idle"
                 /\ store'[p].raised = "Http404"
                 /\ users' = users /\ wallet' = wallet /\ wallets' = wallets
                 /\ ledger' = ledger]_vars

\* both lookups have been made for the unknown user u9 and have raised Http404
C21_Witness ==
    /\ store["p1"].op = "get_user_transactions"
    /\ store["p1"].q.telegram_user_id = "u9" /\ store["p1"].raised = "Http404"
    /\ store["p2"].op = "get_user_wallet"
    /\ store["p2"].q.telegram_user_id = "u9" /\ store["p2"].raised = "Http404"
    /\ wallets["u9"] = 0

\* process p ends a call of get_user_transactions for an existing user
Lists(p) ==
    /\ args[p].op = "get_user_transactions"
    /\ args[p].arg.telegram_user_id \in users
    /\ store'[p] # store[p]

\* the elements of a sequence
Range(f) == {f[i] : i \in DOMAIN f}

\* the rows of the ledger that query q asks for
Matching(q) ==
    {i \in 1..Len(ledger) :
        /\ ledger[i].user = q.telegram_user_id
        /\ q.transaction_type # "" => ledger[i].transaction_type = q.transaction_type
        /\ q.currency # "" => \/ ledger[i].base_currency = q.currency
                              \/ ledger[i].destination_currency = q.currency}

\* C22: get_user_transactions returns only rows of the given user; with a type
\* filter exactly the rows of that transaction_type, with a currency filter
\* exactly the rows whose base_currency or destination_currency is the currency
\* (all of them when no offset and no limit is given).
C22_Filters ==
    [][\A p \in Procs :
          Lists(p)
              => LET q == args[p].arg
                 IN  /\ store'[p].raised = ""
                     /\ Range(store'[p].rows) \subseteq Matching(q)
                     /\ (~q.offset.given /\ ~q.limit.given)
                           => Range(store'[p].rows) = Matching(q)]_vars

\* the elements of a set of row positions, the newest (largest) first
RECURSIVE NewestFirst(_)
NewestFirst(S) ==
    IF S = {} THEN <<>>
    ELSE LET m == CHOOSE x \in S : \A y \in S : y <= x
         IN  <<m>> \o NewestFirst(S \ {m})

\* C23: get_user_transactions returns the user's filtered rows newest first, and
\* with offset o and limit l exactly the elements at positions o to o+l-1 of
\* that sequence (from o on without a limit, the first l without an offset).
C23_Pagination ==
    [][\A p \in Procs :
          Lists(p)
              => LET q == args[p].arg
                     all == NewestFirst(Matching(q))
                     o == IF q.offset.given THEN q.offset.val ELSE 0
                     last == IF q.limit.given /\ o + q.limit.val < Len(all)
                             THEN o + q.limit.val ELSE Len(all)
                 IN  /\ store'[p].raised = ""
                     /\ store'[p].rows = SubSeq(all, o + 1, last)]_vars

(***************************************************************************)
(* Properties of the engine and the store together.                        *)
(***************************************************************************)
\* the user whose call process p starts, continues or ends in this step
Subject(p) ==
    IF call[p].pc # "idle" THEN call[p].req.user
    ELSE IF call'[p].pc # "idle" THEN call'[p].req.user
    ELSE result'[p].req.user

\* the rows of user u in ledger l, oldest first
RowsOf(l, u) == SelectSeq(l, LAMBDA t : t.user = u)

\* the balances the call of process p has read are too small for its request
ShortOfOwn(p) ==
    LET req == call[p].req
        seen == call[p].seen
    IN  \/ /\ call[p].pc = "trade" /\ req.side = "buy"
           /\ Get(seen, "usd") < DMul(req.amount, req.price)
        \/ /\ call[p].pc = "trade" /\ req.side = "sell"
           /\ Get(seen, req.cur) < req.amount
        \/ /\ call[p].pc = "swap"
           /\ Get(seen, req.cur) < req.amount

\* C24: calls for different users are independent under every interleaving: a
\* step of a deposit, trade or swap for user A changes neither the wallet nor
\* the transactions of another user, the balances it works on are read from
\* A's wallet, and whether it finds the funds sufficient is decided by these
\* balances alone.
C24_Independent ==
    [][\A p \in Procs :
          (call'[p] # call[p] \/ result'[p] # result[p])
              => LET u == Subject(p)
                 IN  /\ \A v \in Users \ {u} :
                           /\ wallet'[v] = wallet[v]
                           /\ RowsOf(ledger', v) = RowsOf(ledger, v)
                     /\ Lookup(p) => SameBalance(call'[p].seen, wallet[u].balance)
                     /\ (call[p].pc \in {"trade", "swap"} /\ call'[p].pc = "idle")
                           => (result'[p].status = "insufficient_funds" <=> ShortOfOwn(p))]_vars

\* a buy of user u1 and a deposit of user u2 have both succeeded
C24_Witness ==
    /\ result["p1"].op = "trade" /\ result["p1"].success /\ result["p1"].req.user = "u1"
    /\ result["p1"].req.price > 0
    /\ result["p2"].op = "deposit" /\ result["p2"].success /\ result["p2"].req.user = "u2"
    /\ Bal("u2", "usd") > 0

\* C25: the ledger is append-only: across the calls of deposit, trade, swap,
\* get_user_wallet and get_user_transactions every Transaction that exists
\* before a step exists after it, at the same place and with the same fields.
C25_AppendOnly ==
    [][/\ Len(ledger') >= Len(ledger)
       /\ \A i \in 1..Len(ledger) : ledger'[i] = ledger[i]]_vars

\* a trade or swap has added a row to a ledger that held rows of both users,
\* and the transactions have been listed
C25_Witness ==
    /\ \E p \in Procs :
          /\ result[p].success /\ result[p].op \in {"trade", "swap"}
          /\ result[p].transaction_record = Len(ledger)
    /\ Len(ledger) >= 3
    /\ RowsOf(ledger, "u1") # <<>> /\ RowsOf(ledger, "u2") # <<>>
    /\ store["p1"].op = "get_user_transactions" /\ store["p1"].rows # <<>>

\* C26: every Transaction of the ledger has status completed, and a call that
\* returns a failure stores no Transaction.
C26_Completed ==
    [][/\ \A i \in 1..Len(ledger') : ledger'[i].status = "completed"
       /\ \A p \in Procs :
             ( /\ call'[p] # call[p] \/ result'[p] # result[p]
               /\ call'[p].pc = "idle"
               /\ ~result'[p].success )
                 => ledger' = ledger]_vars

\* the ledger holds the row of a buy that has just succeeded, and the other
\* call has failed
C26_Witness ==
    \E p, q \in Procs :
        /\ result[p].op = "trade" /\ result[p].success /\ result[p].req.side = "buy"
        /\ result[p].transaction_record = Len(ledger)
        /\ result[q].op # "" /\ ~result[q].success

\* C27: in every reachable state, also after concurrent get_user_wallet,
\* deposit, trade and swap calls for one user, each User has at most one Wallet
\* row and every Wallet row belongs to an existing User.
C27_OneWallet ==
    \A u \in UserIds :
        /\ wallets[u] <= 1
        /\ wallets[u] >= 1 => u \in users
        /\ u \in Users => (wallet[u].exists <=> wallets[u] = 1)

\* two lookups for one user found no wallet; the second has created the row and
\* the first is about to insert its own
C27_Witness ==
    /\ store["p1"].pc = "create"
    /\ store["p2"].op = "get_user_wallet" /\ store["p2"].pc = "idle"
    /\ store["p2"].q.telegram_user_id = store["p1"].q.telegram_user_id
    /\ store["p2"].found.exists
    /\ wallets[store["p1"].q.telegram_user_id] = 1

(***************************************************************************)
(* Properties of update_wallet.                                             *)
(***************************************************************************)
\* process p is between its locked read of the wallet and the end of its
\* atomic block
InBlock(p) == store[p].pc = "write"

\* C28: two concurrent calls of update_wallet for one user never interleave: the
\* row lock of the wallet is held from the balance read to the end of the atomic
\* block with the balance write and the Transaction insert, by one call at a
\* time; a call waits for the lock only while a call for the same user holds it.
C28_RowLock ==
    /\ \A p \in Procs : InBlock(p) => lock[store[p].q.user] = p
    /\ \A u \in Users : lock[u] # "" => (InBlock(lock[u]) /\ store[lock[u]].q.user = u)
    /\ \A p, q \in Procs :
          (p # q /\ InBlock(p) /\ InBlock(q)) => store[p].q.user # store[q].q.user
    /\ \A q \in Procs :
          ( /\ store[q].pc = "lock"
            /\ \A p \in Procs \ {q} : ~(InBlock(p) /\ store[p].q.user = store[q].q.user) )
              => ENABLED UpdateLock(q)

\* two calls for different users are inside their atomic blocks at once, each
\* holding the lock of its user's wallet
C28_Witness ==
    /\ InBlock("p1") /\ InBlock("p2")
    /\ store["p1"].q.user = "u1" /\ store["p2"].q.user = "u2"
    /\ lock = [u \in Users |-> IF u = "u1" THEN "p1" ELSE "p2"]

(***************************************************************************)
(* Properties of the validation of a trade.                                 *)
(***************************************************************************)
\* the status of the first of the five checks that argument list a fails, in
\* the order presence, amount, side, catalog, price; "ok" if it passes them all
FirstFailure(a) ==
    IF a.user_id = "" \/ a.cryptocurrency_id = "" \/ a.transaction_type = ""
          \/ a.amount.kind = "none" \/ (a.amount.kind = "num" /\ a.amount.val = 0)
    THEN "invalid_input"
    ELSE IF BadAmount(a.amount) THEN "invalid_input"
    ELSE IF Lower(a.transaction_type) \notin {"buy", "sell"} THEN "invalid_input"
    ELSE IF Lower(a.cryptocurrency_id) \notin ActiveCoins THEN "unsupported_currency"
    ELSE IF ~PositiveQuote(a.quote) THEN "price_unavailable"
    ELSE "ok"

Completes(p) == call[p].pc \in {"trade", "swap"} /\ call'[p].pc = "idle"

\* the wallet of the caller holds the balances the result of p reports
Applied(p) ==
    LET b == result'[p].final_balances
    IN  \A c \in DOMAIN b : Get(wallet'[result'[p].req.user].balance, c) = b[c]

\* C30: the balance mutation and the Transaction insert of a trade or swap
\* become visible as one unit: in no state is a Transaction stored whose
\* balance change is not applied, or a balance change of a trade or swap
\* applied whose Transaction is missing.
C30_OneUnit ==
    [][/\ ledger' # ledger
             => \E p \in Procs :
                   /\ Completes(p) /\ result'[p].success
                   /\ Len(ledger') = Len(ledger) + 1
                   /\ ledger'[Len(ledger')].user = result'[p].req.user
                   /\ Applied(p)
       /\ \A p \in Procs :
             Completes(p)
                 => IF result'[p].success
                    THEN Len(ledger') = Len(ledger) + 1 /\ Applied(p)
                    ELSE wallet' = wallet /\ ledger' = ledger
       /\ (\E u \in Users : wallet'[u].balance # wallet[u].balance)
             => \E p \in Procs :
                   \/ call[p].pc = "deposit"
                   \/ Completes(p) /\ Len(ledger') = Len(ledger) + 1]_vars

\* a trade or swap of one process has committed its row and its balances while
\* the other process is inside a call for the same user and has read them
C30_Witness ==
    \E p, q \in Procs :
        /\ p # q
        /\ result[p].success /\ result[p].op \in {"trade", "swap"}
        /\ result[p].transaction_record = Len(ledger)
        /\ call[q].pc # "idle" /\ call[q].req.user = result[p].req.user
        /\ \A c \in DOMAIN result[p].final_balances :
              /\ Get(call[q].seen, c) = result[p].final_balances[c]
              /\ Bal(result[p].req.user, c) = result[p].final_balances[c]

(***************************************************************************)
(* The price lookup and the wallet.                                         *)
(***************************************************************************)
\* the call of process p has not read, created, locked or written a wallet:
\* it returned in the step that looked up the price
NoWalletAccess(p) ==
    /\ call'[p].pc = "idle"
    /\ wallet' = wallet /\ wallets' = wallets /\ lock' = lock
    /\ ledger' = ledger

\* C31: in a trade and in a swap the price lookup comes before any wallet
\* access: a call for which the oracle supplies no quote touches no wallet, and
\* when its arguments passed the checks that come before the price lookup it
\* returns price_unavailable.
C31_PriceBeforeWallet ==
    [][\A p \in Procs :
          LET a == args[p].arg
          IN  /\ (args[p].op = "trade" /\ ~a.quote.avail)
                    => /\ NoWalletAccess(p)
                       /\ ( /\ TradeWellFormed(a)
                            /\ Lower(a.cryptocurrency_id) \in ActiveCoins
                            /\ result'[p].op = "trade" )
                             => result'[p].status = "price_unavailable"
              /\ (args[p].op = "swap" /\ ~SwapPriced(a))
                    => /\ NoWalletAccess(p)
                       /\ (SwapWellFormed(a) /\ SwapSupported(a) /\ result'[p].op = "swap")
                             => result'[p].status = "price_unavailable"]_vars

\* a trade or swap of an existing user without a wallet has returned
\* price_unavailable for a missing quote, and the user still has no wallet
C31_Witness ==
    \E p \in Procs :
        /\ args[p].op \in {"trade", "swap"}
        /\ result[p].status = "price_unavailable"
        /\ IF args[p].op = "trade" THEN ~args[p].arg.quote.avail
           ELSE ~SwapPriced(args[p].arg)
        /\ args[p].arg.user_id \in users
        /\ ~wallet[args[p].arg.user_id].exists
        /\ wallets[args[p].arg.user_id] = 0

(***************************************************************************)
(* The message of an insufficient_funds result.                             *)
(***************************************************************************)
\* the currency a call fell short of, the amount it required and the amount
\* the wallet it read held
ShortCurrency(r) == IF r.op = "trade" /\ r.req.side = "buy" THEN "usd" ELSE r.req.cur

Required(r) ==
    IF r.op = "trade" /\ r.req.side = "buy" THEN UsdValue(r.req.amount, r.req.price)
    ELSE r.req.amount

Available(r) == Get(r.seen, ShortCurrency(r))

\* C32: the message of every insufficient_funds result, of a buy, a sell or a
\* swap, gives the required amount and the available amount of the currency
\* that fell short.
C32_ShortMessage ==
    [][\A p \in Procs :
          (result'[p] # result[p] /\ result'[p].status = "insufficient_funds")
              => LET r == result'[p]
                 IN  /\ r.message.currency = ShortCurrency(r)
                     /\ r.message.need = {Required(r)}
                     /\ r.message.have = {Available(r)}]_vars

Returned(p) ==
    \/ result'[p] # result[p]
    \/ call[p].pc # "idle" /\ call'[p].pc = "idle"

\* the call of process p returns a successful trade or swap
Recorded(p) ==
    Returned(p) /\ result'[p].success /\ result'[p].op \in {"trade", "swap"}

\* C34: the Transaction rows of a user are as many as the user's trade and swap
\* calls that returned success: a row of the user appears exactly in the step
\* in which such a call returns; the result of that call carries the row it
\* created, which no other result carries; and the result of every failed call
\* and of every deposit carries no row.
C34_OneRowPerSuccess ==
    [][/\ \A u \in UserIds :
             Len(RowsOf(ledger', u)) = Len(RowsOf(ledger, u))
                 + Cardinality({p \in Procs : Recorded(p) /\ result'[p].req.user = u})
       /\ \A p \in Procs :
             Returned(p)
                 => IF Recorded(p)
                    THEN /\ result'[p].transaction_record = Len(ledger')
                         /\ Len(ledger') = Len(ledger) + 1
                         /\ ledger'[Len(ledger')].user = result'[p].req.user
                         /\ ledger'[Len(ledger')].transaction_type
                               = (IF result'[p].op = "swap" THEN "swap"
                                  ELSE result'[p].req.side)
                         /\ \A q \in Procs \ {p} :
                               result'[q].transaction_record # Len(ledger')
                    ELSE result'[p].transaction_record = 0]_vars

\* a trade and a swap of one user have both returned success, each with its own row
C34_Witness ==
    \E p, q \in Procs :
        /\ p # q
        /\ result[p].success /\ result[p].op = "trade"
        /\ result[q].success /\ result[q].op = "swap"
        /\ result[p].req.user = result[q].req.user
        /\ result[p].transaction_record # result[q].transaction_record
        /\ ledger[result[p].transaction_record].transaction_type = result[p].req.side
        /\ ledger[result[q].transaction_record].transaction_type = "swap"

(***************************************************************************)
(* Trading usd.                                                             *)
(***************************************************************************)
\* C35: a trade whose currencyID is 'usd' never succeeds, whatever rows the
\* Coin table holds, and changes no balance: no trade writes the usd entry
\* twice and none increases the holdings of a wallet without surrendering
\* anything.
C35_NoUsdTrade ==
    [][\A p \in Procs :
          (args[p].op = "trade" /\ Lower(args[p].arg.cryptocurrency_id) = "usd")
              => /\ result'[p].op = "trade" => ~result'[p].success
                 /\ NothingChanged]_vars

(***************************************************************************)
(* The entries a successful call leaves alone.                              *)
(***************************************************************************)
\* the currencies whose entries the call of process p may change
Touched(p) ==
    IF call[p].op = "trade" THEN {"usd", call[p].req.cur}
    ELSE IF call[p].op = "swap" THEN {call[p].req.cur, call[p].req.dst}
    ELSE {"usd"}

\* C36: a successful trade changes only the usd and currencyID entries of the
\* user's balance map, a successful swap only the originID and destinationID
\* entries and a successful deposit only the usd entry: every other entry of
\* that wallet has the value it had before the call wrote.
C36_Frame ==
    [][\A p \in Procs :
          (call[p].pc # "idle" /\ call'[p].pc = "idle" /\ result'[p].success)
              => \A c \in Currencies \ Touched(p) :
                    Get(wallet'[call[p].req.user].balance, c)
                        = Get(wallet[call[p].req.user].balance, c)]_vars

(***************************************************************************)
(* The order of the checks of a swap.                                       *)
(***************************************************************************)
\* the status of the first failing check among: arguments present, amount
\* numeric, amount > 0, origin differs from destination, origin supported,
\* destination supported; "ok" if none of them fails
SwapFirstFailure(a) ==
    IF a.user_id = "" \/ a.origin_currency_id = "" \/ a.destination_currency_id = ""
          \/ a.origin_amount.kind = "none"
          \/ (a.origin_amount.kind = "num" /\ a.origin_amount.val = 0)
    THEN "invalid_input"
    ELSE IF a.origin_amount.kind # "num" THEN "invalid_input"
    ELSE IF a.origin_amount.val <= 0 THEN "invalid_input"
    ELSE IF a.origin_currency_id = a.destination_currency_id THEN "invalid_pair"
    ELSE IF a.origin_currency_id \notin ActiveCoins THEN "unsupported_currency"
    ELSE IF a.destination_currency_id \notin ActiveCoins THEN "unsupported_currency"
    ELSE "ok"

\* C37: a swap checks in the fixed order arguments present, amount numeric,
\* amount > 0, origin differs from destination, origin supported, destination
\* supported, both prices available, user exists, origin balance sufficient, and
\* reports the first check that fails: a failing earlier check decides the
\* status whatever the later checks would give, so an unknown user with an
\* unsupported currency gets unsupported_currency.
C37_SwapOrder ==
    [][\A p \in Procs :
          args[p].op = "swap"
              => LET a == args[p].arg
                     early == SwapFirstFailure(a)
                     done == result'[p].op = "swap"
                     ends == call[p].pc = "swap" /\ call'[p].pc = "idle"
                     short == Get(call[p].seen, a.origin_currency_id) < a.origin_amount.val
                 IN  /\ early # "ok"
                           => call'[p].pc = "idle" /\ (done => result'[p].status = early)
                     /\ (early = "ok" /\ ~SwapPriced(a))
                           => /\ call'[p].pc = "idle"
                              /\ done => result'[p].status = "price_unavailable"
                     /\ ( /\ early = "ok"
                          /\ PositiveQuote(a.origin_quote)
                          /\ PositiveQuote(a.destination_quote) )
                           => IF a.user_id \notin users
                              THEN /\ call'[p].pc = "idle"
                                   /\ done => /\ ~result'[p].success
                                              /\ result'[p].status \notin
                                                    {"invalid_input", "invalid_pair",
                                                     "unsupported_currency",
                                                     "price_unavailable",
                                                     "insufficient_funds"}
                              ELSE ends => IF short
                                           THEN result'[p].status = "insufficient_funds"
                                           ELSE result'[p].status \in {"completed", "error"}]_vars

\* a swap of an unknown user with an unsupported currency and no price has
\* returned unsupported_currency
C37_Witness ==
    \E p \in Procs :
        LET a == args[p].arg
        IN  /\ args[p].op = "swap" /\ SwapWellFormed(a)
            /\ a.user_id = "u9"
            /\ ~SwapSupported(a) /\ ~SwapPriced(a)
            /\ result[p].op = "swap" /\ result[p].status = "unsupported_currency"

(***************************************************************************)
(* A buy undone by a sell.                                                  *)
(***************************************************************************)
\* C38: with no other operation in between and the same price, a successful buy
\* of an amount of a currency followed by a successful sell of the same amount
\* of that currency leaves the usd and the currency balance exactly as they
\* were before the buy, and the two calls append exactly two Transactions.
C38_BuyThenSell ==
    [][\A p, q \in Procs :
          LET buy == result[p]
              u == buy.req.user
              cur == buy.req.cur
          IN  ( /\ p # q
                /\ buy.success /\ buy.op = "trade" /\ buy.req.side = "buy"
                /\ buy.transaction_record = Len(ledger)
                /\ call[q].pc = "trade" /\ call'[q].pc = "idle"
                /\ call[q].req = [buy.req EXCEPT !.side = "sell"]
                /\ Get(call[q].seen, "usd") = buy.final_balances["usd"]
                /\ Get(call[q].seen, cur) = buy.final_balances[cur]
                /\ result'[q].success )
              => /\ Get(wallet'[u].balance, "usd") = Get(buy.seen, "usd")
                 /\ Get(wallet'[u].balance, cur) = Get(buy.seen, cur)
                 /\ Len(ledger') = buy.transaction_record + 1
                 /\ ledger'[buy.transaction_record].transaction_type = "buy"
                 /\ ledger'[Len(ledger')].transaction_type = "sell"]_vars

(***************************************************************************)
(* The balances a result reports.                                           *)
(***************************************************************************)
\* the stored balance a key of final_balances stands for: a deposit reports
\* the usd balance under the key 'USD'
StoredFor(u, c) == Get(wallet'[u].balance, IF c = "USD" THEN "usd" ELSE c)

\* C39: the final_balances of a successful trade, swap or deposit are the
\* balances the wallet holds for the currencies involved once the call has
\* committed, and the final_balances of a trade that returns
\* insufficient_funds are the balances the wallet holds, which the call left
\* unchanged.
C39_FinalBalances ==
    [][\A p \in Procs :
          (call[p].pc # "idle" /\ call'[p].pc = "idle")
              => LET r == result'[p]
                     u == call[p].req.user
                 IN  /\ r.success
                           => /\ DOMAIN r.final_balances # {}
                              /\ \A c \in DOMAIN r.final_balances :
                                    r.final_balances[c] = StoredFor(u, c)
                     /\ (r.op = "trade" /\ r.status = "insufficient_funds")
                           => /\ wallet' = wallet
                              /\ DOMAIN r.final_balances = {"usd", call[p].req.cur}
                              /\ \A c \in DOMAIN r.final_balances :
                                    r.final_balances[c] = StoredFor(u, c)]_vars

====
